---- MODULE Spec2Model ----
(***************************************************************************)
(* A model of the spring-embedder graph layout of graph-drawing-js:        *)
(* src/lib/graph.js (getEdges, getAdjacentVertices, the two forces,        *)
(* makeLayout, the runLayout generator) and the vector primitives of       *)
(* src/lib/vector-math.js.                                                 *)
(*                                                                         *)
(* Numbers.  JavaScript numbers are IEEE-754 binary64.  A number is        *)
(* modelled as a record: a finite value on a fixed-point grid of Scale     *)
(* steps per unit ([k |-> "fin", n |-> 24] is 24/Scale), or one of the     *)
(* special values Infinity, -Infinity ([k |-> "inf", n |-> 1 or -1]) and   *)
(* NaN ([k |-> "nan", n |-> 0]).  The special values follow the IEEE rules *)
(* (x/0, 0/0, 0*Infinity, Infinity-Infinity, log 0, log of a negative).    *)
(* Finite results are rounded to the grid instead of to binary64, and      *)
(* Math.log is interpolated linearly between powers of two; the sign of    *)
(* zero is not modelled (no divisor of the code can be -0 unless the       *)
(* caller passes it).                                                      *)
(*                                                                         *)
(* Arrays are objects with identity: heap maps a reference to the array's  *)
(* contents, so that the array the generator yields and the array it keeps *)
(* in its local variable positions are seen to be the same object.         *)
(***************************************************************************)
EXTENDS Integers, Sequences, FiniteSets, TLC

\* ------------------------------------------------------------------ bounds

\* Grid steps per unit of the fixed-point model of finite numbers.
Scale == 16
\* The largest number of rows (vertices) of an adjacency list given to runLayout.
MaxVertices == 2
\* The largest total number of targets (edges) of such an adjacency list.
MaxEdges == 1
\* The largest iteration count passed to runLayout.
MaxIterations == 2
\* How many times the consumer overwrites an entry of a pulled snapshot.
MaxTampers == 1
\* The largest number of rows, and of targets in all, of an adjacency list given
\* to getEdges and getAdjacentVertices alone.
MaxRows == 3
MaxTargets == 3

\* ----------------------------------------------------------------- numbers

Fin(n) == [k |-> "fin", n |-> n]
NaN == [k |-> "nan", n |-> 0]
Inf(s) == [k |-> "inf", n |-> s]

IsFinite(a) == a.k = "fin"

Sign(n) == IF n < 0 THEN -1 ELSE 1

\* p / q rounded toward zero (q # 0).
Round(p, q) ==
  LET a == IF p < 0 THEN -p ELSE p
      b == IF q < 0 THEN -q ELSE q
  IN (Sign(p) * Sign(q)) * (a \div b)

\* a + b
NumAdd(a, b) ==
  IF a.k = "nan" \/ b.k = "nan" THEN NaN
  ELSE IF a.k = "inf" /\ b.k = "inf" THEN (IF a.n = b.n THEN a ELSE NaN)
  ELSE IF a.k = "inf" THEN a
  ELSE IF b.k = "inf" THEN b
  ELSE Fin(a.n + b.n)

\* -a
NumNeg(a) == IF a.k = "nan" THEN NaN ELSE [k |-> a.k, n |-> -a.n]

\* a - b
NumSub(a, b) == NumAdd(a, NumNeg(b))

\* a * b
NumMul(a, b) ==
  IF a.k = "nan" \/ b.k = "nan" THEN NaN
  ELSE IF a.k = "inf" \/ b.k = "inf"
       THEN (IF a.n = 0 \/ b.n = 0 THEN NaN ELSE Inf(Sign(a.n) * Sign(b.n)))
  ELSE Fin(Round(a.n * b.n, Scale))

\* a / b
NumDiv(a, b) ==
  IF a.k = "nan" \/ b.k = "nan" THEN NaN
  ELSE IF a.k = "inf"
       THEN (IF b.k = "inf" THEN NaN ELSE Inf(a.n * Sign(b.n)))
  ELSE IF b.k = "inf" THEN Fin(0)
  ELSE IF b.n = 0 THEN (IF a.n = 0 THEN NaN ELSE Inf(Sign(a.n)))
  ELSE Fin(Round(a.n * Scale, b.n))

\* The largest r in lo..hi with r * r <= n (lo * lo <= n).
RECURSIVE IntSqrt(_, _, _)
IntSqrt(n, lo, hi) ==
  IF lo >= hi THEN lo
  ELSE LET mid == (lo + hi + 1) \div 2
       IN IF mid * mid <= n THEN IntSqrt(n, mid, hi) ELSE IntSqrt(n, lo, mid - 1)

\* An upper bound of the square root of n, found by doubling.
RECURSIVE SqrtBound(_, _)
SqrtBound(n, r) == IF r * r > n THEN r ELSE SqrtBound(n, 2 * r)

\* Math.sqrt(a)
NumSqrt(a) ==
  IF a.k = "nan" THEN NaN
  ELSE IF a.k = "inf" THEN (IF a.n > 0 THEN a ELSE NaN)
  ELSE IF a.n < 0 THEN NaN
  ELSE Fin(IntSqrt(a.n * Scale, 0, SqrtBound(a.n * Scale, 1)))

\* ln 2 on the grid.
Ln2 == Round(693 * Scale, 1000)

\* ln of n/Scale for n >= Scale: p is the power of two (times Scale) below n,
\* e its exponent; the logarithm is interpolated between p and 2p.
RECURSIVE LnUp(_, _, _)
LnUp(n, p, e) ==
  IF 2 * p <= n THEN LnUp(n, 2 * p, e + 1)
  ELSE e * Ln2 + Round((n - p) * Ln2, p)

\* ln of n/Scale for n > 0; ln(1/x) = -ln(x) below one.
LnFixed(n) ==
  IF n >= Scale THEN LnUp(n, Scale, 0)
  ELSE -LnUp(Round(Scale * Scale, n), Scale, 0)

\* Math.log(a)
NumLog(a) ==
  IF a.k = "nan" THEN NaN
  ELSE IF a.k = "inf" THEN (IF a.n > 0 THEN a ELSE NaN)
  ELSE IF a.n < 0 THEN NaN
  ELSE IF a.n = 0 THEN Inf(-1)
  ELSE Fin(LnFixed(a.n))

\* ----------------------------------------------------------------- vectors

Vec(x, y) == [x |-> x, y |-> y]
ZeroVec == Vec(Fin(0), Fin(0))

add(u, v) == Vec(NumAdd(u.x, v.x), NumAdd(u.y, v.y))

sub(u, v) == Vec(NumSub(u.x, v.x), NumSub(u.y, v.y))

scalarMult(a, v) == Vec(NumMul(a, v.x), NumMul(a, v.y))

length(v) == NumSqrt(NumAdd(NumMul(v.x, v.x), NumMul(v.y, v.y)))

norm(v) == scalarMult(NumDiv(Fin(Scale), length(v)), v)

\* ------------------------------------------------------------------- graph
\* An adjacency list is a sequence of rows, the row of vertex v (0-based, as in
\* the code) at index v + 1; a row is a sequence of target indices.

Row(adjacencyList, v) == adjacencyList[v + 1]

\* adjacencyList.map((_, vertex) => vertex)
getVertices(adjacencyList) == [i \in 1..Len(adjacencyList) |-> i - 1]

\* A slip: the pair's fields exchanged.
RowEdgesSwapped(row, from) == [j \in 1..Len(row) |-> [from |-> row[j], to |-> from]]

\* row.map(to => ({from, to}))
RowEdges(row, from) == [j \in 1..Len(row) |-> [from |-> from, to |-> row[j]]]

\* adjacencyList.flatMap((row, from) => ...) taken from row index i on.
RECURSIVE EdgesFrom(_, _)
EdgesFrom(adjacencyList, i) ==
  IF i > Len(adjacencyList) THEN <<>>
  ELSE RowEdges(adjacencyList[i], i - 1) \o EdgesFrom(adjacencyList, i + 1)

getEdges(adjacencyList) == EdgesFrom(adjacencyList, 1)

\* vertices.includes(vertex)
Includes(row, vertex) == \E j \in 1..Len(row) : row[j] = vertex

\* A slip: the source listed once per occurrence of the vertex in its row.
InboundEntryPerOccurrence(row, from, vertex) ==
  [j \in 1..Len(SelectSeq(row, LAMBDA to : to = vertex)) |-> from]

\* The value of the row's entry for flatMap: [from] or [].
InboundEntry(row, from, vertex) == IF Includes(row, vertex) THEN <<from>> ELSE <<>>

\* adjacencyList.flatMap((vertices, from) => vertices.includes(vertex) ? [from] : [])
RECURSIVE InboundFrom(_, _, _)
InboundFrom(adjacencyList, vertex, i) ==
  IF i > Len(adjacencyList) THEN <<>>
  ELSE InboundEntry(adjacencyList[i], i - 1, vertex)
         \o InboundFrom(adjacencyList, vertex, i + 1)

\* adjacencyList[vertex] || []
Outbound(adjacencyList, vertex) ==
  IF vertex >= 0 /\ vertex < Len(adjacencyList) THEN Row(adjacencyList, vertex) ELSE <<>>

getAdjacentVertices(adjacencyList, vertex) ==
  Outbound(adjacencyList, vertex) \o InboundFrom(adjacencyList, vertex, 1)

\* ------------------------------------------------------------------ forces

\* optimumDistance * Math.log(V.length(uToV) / optimumDistance), on V.norm(uToV)
calculateSpringForce(u, v, optimumDistance) ==
  LET uToV == sub(v, u)
      magnitude == NumMul(optimumDistance, NumLog(NumDiv(length(uToV), optimumDistance)))
  IN scalarMult(magnitude, norm(uToV))

\* optimumDistance / V.length(uToV), on V.norm(uToV)
calculateRepulsion(u, v, optimumDistance) ==
  LET uToV == sub(u, v)
      magnitude == NumDiv(optimumDistance, length(uToV))
  IN scalarMult(magnitude, norm(uToV))

\* ------------------------------------------------------------- layout step

\* const damping = 0.4
damping == Fin(Round(4 * Scale, 10))

\* A slip: the filter keeps every vertex.
KeepAll(current, vertex) == TRUE

\* current => current !== vertex
KeepOther(current, vertex) == current # vertex

\* vertices.filter(current => current !== vertex)
OtherVertices(adjacencyList, vertex) ==
  SelectSeq(getVertices(adjacencyList), LAMBDA current : KeepOther(current, vertex))

\* positions[index]: the entry of a JavaScript array, or undefined past its end.
Defined(pos, index) == index >= 0 /\ index < Len(pos)
At(pos, index) == pos[index + 1]

\* adjacentVertices.reduce(..., {x: 0, y: 0}) from entry j on, with accumulator acc.
RECURSIVE ReduceAttraction(_, _, _, _, _, _)
ReduceAttraction(adjacent, j, acc, pos, vertex, optimumDistance) ==
  IF j > Len(adjacent) THEN acc
  ELSE ReduceAttraction(adjacent, j + 1,
         add(acc, calculateSpringForce(At(pos, vertex), At(pos, adjacent[j]),
                                       optimumDistance)),
         pos, vertex, optimumDistance)

localAttraction(adjacencyList, optimumDistance, pos, vertex) ==
  ReduceAttraction(getAdjacentVertices(adjacencyList, vertex), 1, ZeroVec,
                   pos, vertex, optimumDistance)

\* vertices.filter(...).reduce(..., {x: 0, y: 0}) from entry j on.
RECURSIVE ReduceRepulsion(_, _, _, _, _, _)
ReduceRepulsion(others, j, acc, pos, vertex, optimumDistance) ==
  IF j > Len(others) THEN acc
  ELSE ReduceRepulsion(others, j + 1,
         add(acc, calculateRepulsion(At(pos, vertex), At(pos, others[j]),
                                     optimumDistance)),
         pos, vertex, optimumDistance)

globalRepulsion(adjacencyList, optimumDistance, pos, vertex) ==
  ReduceRepulsion(OtherVertices(adjacencyList, vertex), 1, ZeroVec,
                  pos, vertex, optimumDistance)

\* The callback of vertices.map: the new position of one vertex, read from pos.
layoutVertex(adjacencyList, optimumDistance, pos, vertex) ==
  LET force == scalarMult(damping,
                 add(localAttraction(adjacencyList, optimumDistance, pos, vertex),
                     globalRepulsion(adjacencyList, optimumDistance, pos, vertex)))
  IN add(force, At(pos, vertex))

\* A slip: each new position is written into the array the later callbacks read.
RECURSIVE MapVerticesInPlace(_, _, _, _, _)
MapVerticesInPlace(adjacencyList, optimumDistance, src, i, out) ==
  IF i > Len(adjacencyList) THEN out
  ELSE LET new == layoutVertex(adjacencyList, optimumDistance, src, i - 1)
       IN MapVerticesInPlace(adjacencyList, optimumDistance,
                             [src EXCEPT ![i] = new], i + 1, Append(out, new))

\* vertices.map(vertex => ...): the entries from index i on, appended to out; every
\* callback reads the array src it was given.
RECURSIVE MapVertices(_, _, _, _, _)
MapVertices(adjacencyList, optimumDistance, src, i, out) ==
  IF i > Len(adjacencyList) THEN out
  ELSE MapVertices(adjacencyList, optimumDistance, src, i + 1,
         Append(out, layoutVertex(adjacencyList, optimumDistance, src, i - 1)))

\* makeLayout(adjacencyList, optimumDistance)(positions), when no lookup fails.
layout(adjacencyList, optimumDistance, pos) ==
  MapVertices(adjacencyList, optimumDistance, pos, 1, <<>>)

\* The first entry j of adjacent with positions[adjacent[j]] undefined (its spring
\* force destructures undefined: a TypeError), or 0.
RECURSIVE FirstUndefined(_, _, _)
FirstUndefined(adjacent, j, pos) ==
  IF j > Len(adjacent) THEN 0
  ELSE IF ~Defined(pos, adjacent[j]) THEN j
  ELSE FirstUndefined(adjacent, j + 1, pos)

\* The first vertex (from v on) whose callback throws, or the number of vertices.
RECURSIVE ThrowingVertex(_, _, _)
ThrowingVertex(adjacencyList, pos, v) ==
  IF v >= Len(adjacencyList) THEN Len(adjacencyList)
  ELSE IF FirstUndefined(getAdjacentVertices(adjacencyList, v), 1, pos) # 0 THEN v
  ELSE ThrowingVertex(adjacencyList, pos, v + 1)

layoutThrows(adjacencyList, pos) ==
  ThrowingVertex(adjacencyList, pos, 0) < Len(adjacencyList)

\* The calls of calculateSpringForce one callback makes, as <<vertex, adjacent>>
\* index pairs: all of them, or those up to the one that throws.
SpringCallsOf(adjacencyList, pos, vertex) ==
  LET adjacent == getAdjacentVertices(adjacencyList, vertex)
      bad == FirstUndefined(adjacent, 1, pos)
      n == IF bad = 0 THEN Len(adjacent) ELSE bad
  IN [j \in 1..n |-> <<vertex, adjacent[j]>>]

\* The calls of calculateRepulsion one callback makes, as index pairs.
RepulsionCallsOf(adjacencyList, vertex) ==
  LET others == OtherVertices(adjacencyList, vertex)
  IN [j \in 1..Len(others) |-> <<vertex, others[j]>>]

\* The spring calls of one layout step, callbacks v .. last.
RECURSIVE StepSpringCalls(_, _, _, _)
StepSpringCalls(adjacencyList, pos, v, last) ==
  IF v > last THEN <<>>
  ELSE SpringCallsOf(adjacencyList, pos, v)
         \o StepSpringCalls(adjacencyList, pos, v + 1, last)

\* The repulsion calls of one layout step, callbacks v .. last.
RECURSIVE StepRepulsionCalls(_, _, _)
StepRepulsionCalls(adjacencyList, v, last) ==
  IF v > last THEN <<>>
  ELSE RepulsionCallsOf(adjacencyList, v)
         \o StepRepulsionCalls(adjacencyList, v + 1, last)

\* ------------------------------------------------------------------ inputs

\* Rows of exactly len targets, each in 0..n (n itself is past the last vertex).
Rows(n, len) == [1..len -> 0..n]

\* Adjacency lists of rows rows over vertices 0..n-1 with at most e targets in all.
RECURSIVE AdjacencyWith(_, _, _)
AdjacencyWith(rows, n, e) ==
  IF rows = 0 THEN {<<>>}
  ELSE UNION {
         UNION { { <<row>> \o rest : rest \in AdjacencyWith(rows - 1, n, e - len) }
                 : row \in Rows(n, len) }
         : len \in 0..e }

AdjacencyLists == UNION { AdjacencyWith(n, n, MaxEdges) : n \in 0..MaxVertices }

\* The optimum distances of a valid configuration, and those of any call:
\* negative and zero as well.
PositiveDistances == {Fin(Scale), Fin(2 * Scale)}
Distances == {Fin(-Scale), Fin(0)} \cup PositiveDistances

\* The iteration counts of a valid configuration, and those of any call.
NaturalIterationCounts == 0..MaxIterations
IterationCounts == -1..MaxIterations

\* The values Math.random() returns, all in [0, 1): its least value and one
\* close to its supremum.
RandomValues == {Fin(0), Fin(Scale - 1)}

\* A slip: the draw is not centred on zero.
RandomCoordinateUncentred(r, distance) ==
  NumMul(NumMul(r, Fin(2 * Scale)), distance)

\* (Math.random() - 0.5) * 2 * vertexDistance
RandomCoordinate(r, distance) ==
  NumMul(NumMul(NumSub(r, Fin(Scale \div 2)), Fin(2 * Scale)), distance)

\* vertices.map(() => ({x: ..., y: ...})): one pair of draws per vertex.
InitialPositions(adjacency, distance) ==
  { [v \in 1..Len(adjacency) |->
       Vec(RandomCoordinate(draws[v][1], distance),
           RandomCoordinate(draws[v][2], distance))]
    : draws \in [1..Len(adjacency) -> RandomValues \X RandomValues] }

\* The value the consumer writes over an entry of a snapshot.
TamperValues == {Vec(Fin(3 * Scale), Fin(-3 * Scale))}

\* The adjacency list of the main program.
ExampleAdjacency ==
  << <<>>, <<0, 2>>, <<3, 4, 5>>, <<6>>, <<>>, <<>>, <<7, 8>>, <<>>, <<9, 10>>,
     <<>>, <<>> >>

\* The adjacency lists given to the graph functions alone.
GraphLists ==
  UNION { AdjacencyWith(n, n, MaxTargets) : n \in 0..MaxRows } \cup {ExampleAdjacency}

\* ------------------------------------------------------------------- state

VARIABLES
  adjacencyList,   \* the adjacency list: runLayout's (or the graph function's) argument
  vertexDistance,  \* runLayout's argument
  iterations,      \* runLayout's argument
  pc,              \* where the generator is suspended
  i,               \* the loop variable of runLayout
  positions,       \* runLayout's local variable: a reference into heap (0: unset)
  heap,            \* the arrays allocated so far, by reference
  pulled,          \* the references the consumer received, in order
  yielded,         \* the contents of each snapshot at the moment it was yielded
  lastResult,      \* what the last next() gave: "none", "value", "done", "throw"
  layoutRuns,      \* how many times the layout step function was called
  springCalls,     \* the calculateSpringForce calls of the last layout step
  repulsionCalls,  \* the calculateRepulsion calls of the last layout step
  tampers,         \* how many entries the consumer has overwritten
  call             \* the last call of a graph function, with its result

vars == <<adjacencyList, vertexDistance, iterations, pc, i, positions, heap,
          pulled, yielded, lastResult, layoutRuns, springCalls, repulsionCalls,
          tampers, call>>

inputs == <<adjacencyList, vertexDistance, iterations>>

\* The generator object as runLayout(...) returns it: nothing has run yet.
Fresh ==
  /\ pc = "start"
  /\ i = 0
  /\ positions = 0
  /\ heap = <<>>
  /\ pulled = <<>>
  /\ yielded = <<>>
  /\ lastResult = "none"
  /\ layoutRuns = 0
  /\ springCalls = <<>>
  /\ repulsionCalls = <<>>
  /\ tampers = 0
  /\ call = [fn |-> "none"]

\* runLayout called with a valid configuration, on any adjacency list.  Both
\* parameters are passed: the defaults (100 and 1000) are values like the others.
Init ==
  /\ adjacencyList \in AdjacencyLists
  /\ vertexDistance \in PositiveDistances
  /\ iterations \in NaturalIterationCounts
  /\ Fresh

\* yield positions: the consumer receives the very array positions refers to.
Yield(ref, contents, at) ==
  /\ pulled' = Append(pulled, ref)
  /\ yielded' = Append(yielded, contents)
  /\ lastResult' = "value"
  /\ pc' = at

\* The first next(): lines 113-122, up to the first yield.
PullFirst ==
  /\ pc = "start"
  /\ \E initial \in InitialPositions(adjacencyList, vertexDistance) :
       /\ heap' = Append(heap, initial)
       /\ positions' = Len(heap) + 1
       /\ Yield(Len(heap) + 1, initial, "yield122")
  /\ UNCHANGED <<inputs, i, layoutRuns, springCalls, repulsionCalls, tampers, call>>

\* A slip: the loop runs once more.
LoopTestInclusive(next, count) == next <= count

\* i < iterations
LoopTest(next, count) == next < count

\* The loop of lines 124-127 entered with loop variable value next: the test, one
\* layout step and its yield; or the end of the generator.
Loop(next) ==
  /\ i' = next
  /\ IF LoopTest(next, iterations)
     THEN LET pos == heap[positions]
              last == ThrowingVertex(adjacencyList, pos, 0)
          IN /\ layoutRuns' = layoutRuns + 1
             /\ springCalls' =
                  StepSpringCalls(adjacencyList, pos, 0,
                                  IF last < Len(adjacencyList) THEN last ELSE last - 1)
             /\ repulsionCalls' = StepRepulsionCalls(adjacencyList, 0, last - 1)
             /\ IF layoutThrows(adjacencyList, pos)
                THEN /\ pc' = "closed"
                     /\ lastResult' = "throw"
                     /\ UNCHANGED <<positions, heap, pulled, yielded>>
                ELSE LET result == layout(adjacencyList, vertexDistance, pos)
                     IN /\ heap' = Append(heap, result)
                        /\ positions' = Len(heap) + 1
                        /\ Yield(Len(heap) + 1, result, "yield126")
     ELSE /\ pc' = "closed"
          /\ lastResult' = "done"
          /\ UNCHANGED <<positions, heap, pulled, yielded, layoutRuns,
                         springCalls, repulsionCalls>>
  /\ UNCHANGED <<inputs, tampers, call>>

\* next() on the generator suspended at the yield of line 122: let i = 0.
PullAfterInitial ==
  /\ pc = "yield122"
  /\ Loop(0)

\* next() on the generator suspended at the yield of line 126: i++.
PullAfterStep ==
  /\ pc = "yield126"
  /\ Loop(i + 1)

\* next() on a generator that returned or threw: {value: undefined, done: true}.
PullClosed ==
  /\ pc = "closed"
  /\ lastResult' = "done"
  /\ UNCHANGED <<inputs, pc, i, positions, heap, pulled, yielded, layoutRuns,
                 springCalls, repulsionCalls, tampers, call>>

Next ==
  \/ PullFirst
  \/ PullAfterInitial
  \/ PullAfterStep
  \/ PullClosed

Spec == Init /\ [][Next]_vars

\* ------------------------- any configuration, and a consumer that writes

\* runLayout called with any configuration: it validates none of its arguments.
InitAnyInput ==
  /\ adjacencyList \in AdjacencyLists
  /\ vertexDistance \in Distances
  /\ iterations \in IterationCounts
  /\ Fresh

\* Between two pulls the consumer overwrites an entry of a snapshot it holds.
Tamper ==
  /\ tampers < MaxTampers
  /\ \E k \in 1..Len(pulled) : \E index \in 1..Len(heap[pulled[k]]) :
       \E value \in TamperValues :
         heap' = [heap EXCEPT ![pulled[k]][index] = value]
  /\ tampers' = tampers + 1
  /\ UNCHANGED <<inputs, pc, i, positions, pulled, yielded, lastResult,
                 layoutRuns, springCalls, repulsionCalls, call>>

NextAnyInput ==
  \/ PullFirst
  \/ PullAfterInitial
  \/ PullAfterStep
  \/ PullClosed
  \/ Tamper

SpecAnyInput == InitAnyInput /\ [][NextAnyInput]_vars

\* ------------------------------------------- the graph functions alone

InitGraph ==
  /\ adjacencyList \in GraphLists
  /\ vertexDistance = Fin(0)
  /\ iterations = 0
  /\ Fresh

layoutState == <<vertexDistance, iterations, pc, i, positions, heap, pulled, yielded,
                 lastResult, layoutRuns, springCalls, repulsionCalls, tampers>>

CallGetEdges ==
  /\ call' = [fn |-> "getEdges", result |-> getEdges(adjacencyList)]
  /\ UNCHANGED <<adjacencyList, layoutState>>

\* The vertex argument ranges over the vertices and the first index past them.
CallGetAdjacentVertices ==
  /\ \E vertex \in 0..Len(adjacencyList) :
       call' = [fn |-> "getAdjacentVertices", vertex |-> vertex,
                result |-> getAdjacentVertices(adjacencyList, vertex)]
  /\ UNCHANGED <<adjacencyList, layoutState>>

NextGraph ==
  \/ CallGetEdges
  \/ CallGetAdjacentVertices

SpecGraph == InitGraph /\ [][NextGraph]_vars

\* ------------------------------------------------------------------ claims

N == Len(adjacencyList)

Range(s) == {s[j] : j \in 1..Len(s)}

StrictlyAscending(s) == \A j \in 1..(Len(s) - 1) : s[j] < s[j + 1]

Last(s) == s[Len(s)]

\* How many entries of the sequence s equal e.
Count(s, e) == Cardinality({j \in 1..Len(s) : s[j] = e})

\* The number of targets in the rows before row index r.
RECURSIVE TargetsBefore(_, _)
TargetsBefore(adjacency, r) ==
  IF r <= 1 THEN 0 ELSE TargetsBefore(adjacency, r - 1) + Len(adjacency[r - 1])

\* Every target is a vertex index: the data model's invariant.
WellFormed(adjacency) ==
  \A r \in 1..Len(adjacency) : \A j \in 1..Len(adjacency[r]) :
    adjacency[r][j] >= 0 /\ adjacency[r][j] < Len(adjacency)

FiniteVec(v) == IsFinite(v.x) /\ IsFinite(v.y)

PositiveDistance == vertexDistance.k = "fin" /\ vertexDistance.n > 0

ValidInput == WellFormed(adjacencyList) /\ PositiveDistance /\ iterations >= 0

\* This transition is a pull that resumed the loop, ran a layout step and yielded.
StepYields == pc # "start" /\ Len(pulled') = Len(pulled) + 1

\* ---- C1

SnapshotCount ==
  /\ Len(yielded) = Len(pulled)
  /\ Len(pulled) <= iterations + 1
  /\ layoutRuns <= iterations
  /\ pc = "closed" =>
       /\ Len(pulled) = iterations + 1
       /\ layoutRuns = iterations
       /\ lastResult = "done"

DoneStaysDone ==
  pc = "closed" =>
    /\ pc' = "closed"
    /\ lastResult' = "done"
    /\ pulled' = pulled
    /\ yielded' = yielded
    /\ layoutRuns' = layoutRuns

NeverRewound ==
  /\ pc' = "start" => pc = "start"
  /\ pc' = "yield122" => pc \in {"start", "yield122"}
  /\ Len(pulled') >= Len(pulled)

PullAdvances == pc # "closed" => (pc' = "closed" \/ Len(pulled') = Len(pulled) + 1)

\* C1, as amended: for every adjacency list whose targets all lie in [0, N) and
\* every iteration count k >= 0, each pull before the end yields one snapshot or
\* ends the sequence, at most k+1 snapshots are yielded, and when the sequence is
\* Done exactly k+1 were (1, with no layout step run, when k = 0); once Done it
\* stays Done, every further pull yields nothing, and it never goes back.
C1_SnapshotsThenDone ==
  /\ []((WellFormed(adjacencyList) /\ iterations >= 0) => SnapshotCount)
  /\ [][DoneStaysDone /\ NeverRewound /\ PullAdvances]_vars

C1_Witness ==
  /\ WellFormed(adjacencyList)
  /\ N = MaxVertices
  /\ iterations = MaxIterations
  /\ pc = "closed"
  /\ lastResult = "done"
  /\ Len(pulled) = MaxIterations + 1

\* C1 as stated, for every adjacency list: when the sequence is Done, exactly
\* k+1 snapshots were yielded.
C1_AnyAdjacencyList ==
  (iterations >= 0 /\ pc = "closed") => Len(pulled) = iterations + 1

\* ---- C2

InvalidInput == ~PositiveDistance \/ iterations < 0 \/ ~WellFormed(adjacencyList)

\* C2: on invalid input (a non-positive optimum distance, a negative iteration
\* count, a target outside [0, N)) no snapshot is ever yielded.
C2_InvalidInputRejected == InvalidInput => pulled = <<>>

\* ---- C3

\* C3: on valid input no yielded snapshot holds a NaN or an infinite coordinate.
C3_NoPoisonedSnapshot ==
  ValidInput =>
    \A k \in 1..Len(yielded) : \A v \in 1..Len(yielded[k]) : FiniteVec(yielded[k][v])

\* ---- C4

\* C4: a layout step that yields stores its result in a new array, leaves every
\* array that existed (snapshot i among them, which still holds what it held when
\* it was yielded) as it was, and each of the N new positions is the step
\* function's value for that vertex on snapshot i.
C4_StepIsolated ==
  [][StepYields =>
       /\ positions' \notin DOMAIN heap
       /\ positions' = Last(pulled')
       /\ positions = Last(pulled)
       /\ \A ref \in DOMAIN heap : heap'[ref] = heap[ref]
       /\ heap'[positions] = Last(yielded)
       /\ Len(heap'[positions']) = N
       /\ \A v \in 0..(N - 1) :
            heap'[positions'][v + 1] =
              layoutVertex(adjacencyList, vertexDistance, Last(yielded), v)
    ]_vars

C4_Witness ==
  /\ N = MaxVertices
  /\ Len(pulled) >= 2
  /\ heap[pulled[1]] = yielded[1]
  /\ heap[pulled[2]] = yielded[2]
  /\ \A v \in 1..N : yielded[2][v] # yielded[1][v] /\ FiniteVec(yielded[2][v])

\* ---- C5

\* C5: on valid input, whatever the consumer did to the snapshots it holds, the
\* snapshot a pull yields is the one the step function gives on the previous
\* snapshot as it was yielded.
C5_ConsumerCannotInfluence ==
  [][(ValidInput /\ StepYields) =>
       Last(yielded') = layout(adjacencyList, vertexDistance, Last(yielded))
    ]_vars

\* ---- C6

\* C6: for a vertex v in [0, N) the neighbor sequence is adjacency[v] as it
\* stands (duplicates kept), followed by the sources u with v in adjacency[u],
\* each once, in ascending order; for vertex 2 of the example it is 3,4,5,1.
C6_NeighborSequence ==
  (call.fn = "getAdjacentVertices" /\ call.vertex < N) =>
    LET v == call.vertex
        r == call.result
        out == adjacencyList[v + 1]
        inbound == SubSeq(r, Len(out) + 1, Len(r))
    IN /\ Len(r) >= Len(out)
       /\ SubSeq(r, 1, Len(out)) = out
       /\ StrictlyAscending(inbound)
       /\ Range(inbound) = {u \in 0..(N - 1) : v \in Range(adjacencyList[u + 1])}
       /\ (adjacencyList = ExampleAdjacency /\ v = 2) => r = <<3, 4, 5, 1>>

\* Vertex 1 with one outbound edge and a doubled inbound edge from vertex 0.
C6_Witness ==
  /\ call.fn = "getAdjacentVertices"
  /\ adjacencyList = << <<1, 1>>, <<0>> >>
  /\ call.vertex = 1
  /\ call.result = <<0, 0>>

\* ---- C7

ExampleEdges ==
  << [from |-> 1, to |-> 0], [from |-> 1, to |-> 2], [from |-> 2, to |-> 3],
     [from |-> 2, to |-> 4], [from |-> 2, to |-> 5], [from |-> 3, to |-> 6],
     [from |-> 6, to |-> 7], [from |-> 6, to |-> 8], [from |-> 8, to |-> 9],
     [from |-> 8, to |-> 10] >>

\* C7: getEdges gives one (from, to) pair per target occurrence, rows in
\* ascending order and targets in row order, so its length is the sum of the row
\* lengths; on the example it is the ten pairs (1,0) ... (8,10).
C7_EdgeList ==
  call.fn = "getEdges" =>
    /\ Len(call.result) = TargetsBefore(adjacencyList, N + 1)
    /\ \A r \in 1..N : \A j \in 1..Len(adjacencyList[r]) :
         call.result[TargetsBefore(adjacencyList, r) + j]
           = [from |-> r - 1, to |-> adjacencyList[r][j]]
    /\ adjacencyList = ExampleAdjacency => call.result = ExampleEdges

C7_Witness ==
  /\ call.fn = "getEdges"
  /\ adjacencyList = ExampleAdjacency
  /\ Len(call.result) = 10

\* ---- C8

\* C8: for a positive optimum distance d the first snapshot is yielded before
\* the step function is called at all, has N positions, and each of its
\* coordinates is a finite number in [-d, d].
C8_InitialSnapshot ==
  /\ layoutRuns > 0 => Len(pulled) >= 1
  /\ pc = "yield122" => (layoutRuns = 0 /\ Len(pulled) = 1)
  /\ (PositiveDistance /\ Len(yielded) >= 1) =>
       /\ Len(yielded[1]) = N
       /\ \A v \in 1..N :
            /\ FiniteVec(yielded[1][v])
            /\ yielded[1][v].x.n >= -vertexDistance.n
            /\ yielded[1][v].x.n <= vertexDistance.n
            /\ yielded[1][v].y.n >= -vertexDistance.n
            /\ yielded[1][v].y.n <= vertexDistance.n

C8_Witness ==
  /\ pc = "yield122"
  /\ N = MaxVertices
  /\ PositiveDistance
  /\ yielded[1][1].x.n = -vertexDistance.n
  /\ yielded[1][N].y.n > 0

\* ---- C9

\* C9: calculateRepulsion is never called with a vertex and itself, and never
\* twice with the same pair; the step of a well-formed graph calls it exactly
\* once for every vertex v and every other vertex w.
C9_RepulsionExcludesSelf ==
  /\ \A v \in 0..(N - 1) : \A w \in 0..(N - 1) :
       /\ Count(repulsionCalls, <<v, v>>) = 0
       /\ Count(repulsionCalls, <<v, w>>) <= 1
       /\ (WellFormed(adjacencyList) /\ layoutRuns > 0 /\ v # w) =>
            Count(repulsionCalls, <<v, w>>) = 1
  /\ (WellFormed(adjacencyList) /\ layoutRuns > 0) =>
       Len(repulsionCalls) = N * (N - 1)

C9_Witness ==
  /\ N = MaxVertices
  /\ layoutRuns > 0
  /\ lastResult = "value"
  /\ Len(repulsionCalls) = N * (N - 1)

\* ---- C10

\* C10: for an adjacency list whose targets all lie in [0, N),
\* calculateSpringForce is never called with a vertex and itself.
C10_NoSelfSpring ==
  WellFormed(adjacencyList) =>
    \A k \in 1..Len(springCalls) : springCalls[k][1] # springCalls[k][2]

====
